---- MODULE Spec2Model ----
(***************************************************************************)
(* A model of the libIMG editor (src/main.py): the ImageWidget's image,    *)
(* displayed bitmap and edit mode, the File menu's actions, the files the  *)
(* editor reads and writes, and the handlers MainWindow and ImageWidget    *)
(* run on menu and pointer events.  The libimg Image type (constructor,    *)
(* accessors, from_file and write_to_file) is not part of src/ and is      *)
(* modelled from spec.md, sections 3 and 4.2.                              *)
(***************************************************************************)
EXTENDS Integers, Sequences, FiniteSets, TLC

\* ------------------------------------------------------------- constants

\* src/main.py:169, the height the image is displayed at
DisplayHeight == 300

\* src/main.py:172, the border around the label
BorderOffset == 9

\* src/main.py:200, the spin boxes' range
SpinMin == 1

SpinMax == 65535

\* libimg's tag of the black and white format (spec.md 4.2: tag byte 0)
Format_BW == 0

\* src/main.py:209, the indexes of the format combo box's items
ComboIndexes == {0}

\* --------------------------------------------------------------- bounds

\* the largest width and height the model's New dialog is given, besides
\* the out-of-range requests and the tall image below
MaxW == 2

MaxH == 2

\* the smallest height whose pixel_size, DisplayHeight \div height, is 0
TallHeight == DisplayHeight + 1

\* the << width, height >> the user asks the New dialog's spin boxes for:
\* the small images, one taller than the display, and sizes out of range
RequestedSizes ==
    ((0 .. MaxW) \X (0 .. MaxH))
       \cup { << 1, TallHeight >>, << SpinMax + 1, 1 >>, << 1, SpinMax + 1 >> }

\* the pointer positions << x, y >> of the mouse events, in widget
\* coordinates: in the border, on the image, right of it, below it and (a
\* drag that left the widget) left of the widget
PointerPositions ==
    { << 0, 0 >>, << 9, 9 >>, << 159, 159 >>, << 400, 9 >>, << 9, 400 >>,
      << -350, 9 >> }

\* Python's None, as the value of _image and _qimage
None == [none |-> TRUE]

\* ------------------------------------------------- libimg.Image (spec.md)

\* the w pixels of each row of a grid, one row after the other (row-major)
Flatten(rows, w) ==
    [i \in 1 .. (Len(rows) * w) |-> rows[((i - 1) \div w) + 1][((i - 1) % w) + 1]]

\* Image(pixel_array, image_format)
Image(pixel_array, image_format) ==
    [ format |-> image_format,
      width  |-> IF pixel_array = << >> THEN 0 ELSE Len(pixel_array[1]),
      height |-> Len(pixel_array),
      pixels |-> pixel_array ]

get_width(img) == img.width

get_height(img) == img.height

get_image_format(img) == img.format

to_array(img) == img.pixels

\* a 16-bit unsigned integer as two bytes, big-endian
U16(n) == << (n \div 256) % 256, n % 256 >>

\* Codec.encode: the 5-byte header, then one byte per pixel, row-major
encode(img) ==
    << img.format >> \o U16(img.width) \o U16(img.height) \o Flatten(img.pixels, img.width)

\* Codec.decode: an image, or the kind of the failure
decode(bytes) ==
    IF Len(bytes) < 5 \/ bytes[1] # Format_BW
    THEN [ok |-> FALSE, error |-> "MalformedHeader"]
    ELSE LET w == bytes[2] * 256 + bytes[3]
             h == bytes[4] * 256 + bytes[5]
         IN  IF w = 0 \/ h = 0
             THEN [ok |-> FALSE, error |-> "InvalidDimension"]
             ELSE IF Len(bytes) - 5 < w * h
             THEN [ok |-> FALSE, error |-> "TruncatedData"]
             ELSE IF \E i \in 1 .. (w * h) : bytes[5 + i] \notin {0, 1}
             THEN [ok |-> FALSE, error |-> "InvalidPixelValue"]
             ELSE [ok |-> TRUE,
                   image |-> Image([r \in 1 .. h |->
                                      [c \in 1 .. w |-> bytes[5 + (r - 1) * w + c]]],
                                   bytes[1])]

\* ------------------------------------------------------------ the state

VARIABLES
    image,        \* ImageWidget._image: None or an Image
    qimage,       \* ImageWidget._qimage: None or the displayed bitmap
    edit_mode,    \* ImageWidget._edit_mode
    new_enabled,  \* MainWindow._new_action's enabled flag
    open_enabled, \* MainWindow._open_action's enabled flag
    save_enabled, \* MainWindow._save_action's enabled flag
    disk,         \* the files: the bytes of each path that exists
    last          \* the last handler that ran: what it was, whether it
                  \* opened a dialog, and how it ended

vars == << image, qimage, edit_mode, new_enabled, open_enabled, save_enabled,
           disk, last >>

\* the path the Save dialog is given; "" is a dialog closed without a path
SavePaths == {"out.limg"}

NoPath == ""

\* the files there are when the editor starts: a valid 2x1 image, and files
\* that are too short, of an unknown format, truncated, with a pixel that
\* is neither 0 nor 1, and of width 0
InitialDisk ==
    [p \in {"good.limg", "short.limg", "tag.limg", "trunc.limg", "pixel.limg",
            "zero.limg"} |->
        CASE p = "good.limg"  -> << 0, 0, 2, 0, 1, 1, 0 >>
          [] p = "short.limg" -> << 0, 0, 2 >>
          [] p = "tag.limg"   -> << 1, 0, 2, 0, 2 >>
          [] p = "trunc.limg" -> << 0, 0, 2, 0, 2, 0, 1, 0 >>
          [] p = "pixel.limg" -> << 0, 0, 1, 0, 2, 0, 2 >>
          [] OTHER            -> << 0, 0, 0, 0, 1 >>]

\* how a handler ended: the handler, whether it opened a dialog, its way
\* out (a return or the exception it raised) and the text of the message
\* box it showed
Outcome(op, dialog, result, message) ==
    [op |-> op, dialog |-> dialog, result |-> result, message |-> message]

\* ImageWidget.__init__ and MainWindow.__init__
Init ==
    /\ image = None
    /\ qimage = None
    /\ edit_mode = FALSE
    /\ new_enabled = TRUE
    /\ open_enabled = TRUE
    /\ save_enabled = TRUE
    /\ disk = InitialDisk
    /\ last = Outcome("__init__", FALSE, "returned", "")

\* ---------------------------------------------------------- ImageWidget

\* _draw_image with line 159's two colours exchanged
draw_image_inverted(img) ==
    [ width  |-> get_width(img),
      height |-> get_height(img),
      pixel  |-> [row \in 1 .. get_height(img) |->
                    [col \in 1 .. get_width(img) |->
                        IF /\ get_image_format(img) = Format_BW
                           /\ to_array(img)[row][col] = 1
                        THEN "white" ELSE "black"]] ]

\* ImageWidget._draw_image: the QImage drawn from an image, all white and
\* then, for the black and white format, black where the pixel is 1
draw_image(img) ==
    [ width  |-> get_width(img),
      height |-> get_height(img),
      pixel  |-> [row \in 1 .. get_height(img) |->
                    [col \in 1 .. get_width(img) |->
                        IF /\ get_image_format(img) = Format_BW
                           /\ to_array(img)[row][col] = 1
                        THEN "black" ELSE "white"]] ]

\* line 166 without its test of the edit mode
ignores_event_any_mode(img, mode) == img = None

\* line 166: the events _draw_pixel ignores
ignores_event(img, mode) == img = None \/ ~mode

\* line 169 dividing by the image's width
pixel_size_by_width(img) == DisplayHeight \div get_width(img)

\* line 169
pixel_size(img) == DisplayHeight \div get_height(img)

\* lines 172 and 173: Python's // rounds down, as \div does
x_pos(x, size) == (x - BorderOffset) \div size

y_pos(y, size) == (y - BorderOffset) \div size

\* line 176: the clicks _draw_pixel takes to be outside of the image
outside_image(img, xp, yp) == xp >= get_width(img) \/ yp >= get_height(img)

\* Python's list indexing: an index i of a list of length n raises
\* IndexError unless -n <= i < n, and a negative one counts from the end
index_error(i, n) == i >= n \/ i < -n

list_index(i, n) == IF i < 0 THEN n + i + 1 ELSE i + 1

\* line 180 flipping the pixel
set_pixel_toggle(pixel_array, yp, xp) ==
    LET row == list_index(yp, Len(pixel_array))
        col == list_index(xp, Len(pixel_array[row]))
    IN  [pixel_array EXCEPT ![row][col] = 1 - @]

\* line 180 adding 1 to the pixel
set_pixel_increment(pixel_array, yp, xp) ==
    LET row == list_index(yp, Len(pixel_array))
        col == list_index(xp, Len(pixel_array[row]))
    IN  [pixel_array EXCEPT ![row][col] = @ + 1]

\* line 180 assigning to the whole row
set_pixel_row(pixel_array, yp, xp) ==
    LET row == list_index(yp, Len(pixel_array))
    IN  [pixel_array EXCEPT ![row] = [col \in 1 .. Len(pixel_array[row]) |-> 1]]

\* line 180: pixel_array[y_pos][x_pos] = 1
set_pixel(pixel_array, yp, xp) ==
    LET row == list_index(yp, Len(pixel_array))
        col == list_index(xp, Len(pixel_array[row]))
    IN  [pixel_array EXCEPT ![row][col] = 1]

\* ImageWidget._draw_pixel on an event at (x, y): the image it leaves and
\* its way out
draw_pixel(img, mode, x, y) ==
    IF ignores_event(img, mode)
    THEN [image |-> img, result |-> "ignored"]
    ELSE IF get_height(img) = 0 \/ pixel_size(img) = 0
    THEN [image |-> img, result |-> "ZeroDivisionError"]
    ELSE LET xp == x_pos(x, pixel_size(img))
             yp == y_pos(y, pixel_size(img))
         IN  IF outside_image(img, xp, yp)
             THEN [image |-> img, result |-> "outside"]
             ELSE IF \/ index_error(yp, get_height(img))
                     \/ index_error(xp, get_width(img))
             THEN [image |-> img, result |-> "IndexError"]
             ELSE [image  |-> Image(set_pixel(to_array(img), yp, xp),
                                    get_image_format(img)),
                   result |-> "painted"]

\* a mouse event handled by _draw_pixel, which draws the image it painted
DrawPixelEvent(op, x, y) ==
    LET r == draw_pixel(image, edit_mode, x, y)
    IN  /\ image' = r.image
        /\ qimage' = IF r.result = "painted" THEN draw_image(r.image) ELSE qimage
        /\ last' = Outcome(op, FALSE, r.result, "")
        /\ UNCHANGED << edit_mode, new_enabled, open_enabled, save_enabled, disk >>

\* ImageWidget.mouseMoveEvent
mouseMoveEvent(x, y) == DrawPixelEvent("_draw_pixel", x, y)

\* ImageWidget.mousePressEvent
mousePressEvent(x, y) == DrawPixelEvent("_draw_pixel", x, y)

\* ----------------------------------------------------------- MainWindow

\* MainWindow.file_menu_action_show
file_menu_action_show ==
    /\ save_enabled' = (image # None)
    /\ last' = Outcome("file_menu_action_show", FALSE, "returned", "")
    /\ UNCHANGED << image, qimage, edit_mode, new_enabled, open_enabled, disk >>

\* MainWindow.file_menu_action_hide
file_menu_action_hide ==
    /\ new_enabled' = TRUE
    /\ open_enabled' = TRUE
    /\ save_enabled' = TRUE
    /\ last' = Outcome("file_menu_action_hide", FALSE, "returned", "")
    /\ UNCHANGED << image, qimage, edit_mode, disk >>

\* lines 200 and 203 with a range that starts at 0
spinbox_accepts_zero(v) == v \in 0 .. SpinMax

\* lines 200 and 203: the values a spin box of the New dialog can hold
spinbox_accepts(v) == v \in SpinMin .. SpinMax

\* lines 90 to 93 with the width and the height exchanged
new_pixel_array_transposed(w, h, fmt) ==
    IF fmt = Format_BW THEN [row \in 1 .. w |-> [col \in 1 .. h |-> 0]] ELSE << >>

\* lines 90 to 93: the pixel array of a new image
new_pixel_array(w, h, fmt) ==
    IF fmt = Format_BW THEN [row \in 1 .. h |-> [col \in 1 .. w |-> 0]] ELSE << >>

\* line 97: the edit mode an accepted New dialog sets
new_edit_mode(mode) == TRUE

\* new_file_action with line 97 outside of line 89's test: edit mode is set
\* whether the dialog was accepted or rejected
new_file_action_always_edit(accepted, w, h, fmt) ==
    /\ new_enabled
    /\ spinbox_accepts(w)
    /\ spinbox_accepts(h)
    /\ IF accepted
       THEN LET new_image == Image(new_pixel_array(w, h, fmt), fmt)
            IN  /\ image' = new_image
                /\ qimage' = draw_image(new_image)
                /\ last' = Outcome("new_file_action", TRUE, "accepted", "")
       ELSE /\ last' = Outcome("new_file_action", TRUE, "rejected", "")
            /\ UNCHANGED << image, qimage >>
    /\ edit_mode' = new_edit_mode(edit_mode)
    /\ UNCHANGED << new_enabled, open_enabled, save_enabled, disk >>

\* new_file_action without line 89's test: a rejected dialog's values make
\* the new image too
new_file_action_unconditional(accepted, w, h, fmt) ==
    /\ new_enabled
    /\ spinbox_accepts(w)
    /\ spinbox_accepts(h)
    /\ LET new_image == Image(new_pixel_array(w, h, fmt), fmt)
       IN  /\ image' = new_image
           /\ qimage' = draw_image(new_image)
           /\ edit_mode' = new_edit_mode(edit_mode)
           /\ last' = Outcome("new_file_action", TRUE,
                              IF accepted THEN "accepted" ELSE "rejected", "")
    /\ UNCHANGED << new_enabled, open_enabled, save_enabled, disk >>

\* MainWindow.new_file_action, with the dialog accepted or rejected holding
\* width w, height h and the format of index fmt
new_file_action(accepted, w, h, fmt) ==
    /\ new_enabled
    /\ spinbox_accepts(w)
    /\ spinbox_accepts(h)
    /\ IF accepted
       THEN LET new_image == Image(new_pixel_array(w, h, fmt), fmt)
            IN  /\ image' = new_image
                /\ qimage' = draw_image(new_image)
                /\ edit_mode' = new_edit_mode(edit_mode)
                /\ last' = Outcome("new_file_action", TRUE, "accepted", "")
       ELSE /\ last' = Outcome("new_file_action", TRUE, "rejected", "")
            /\ UNCHANGED << image, qimage, edit_mode >>
    /\ UNCHANGED << new_enabled, open_enabled, save_enabled, disk >>

\* Image.from_file: decode's image, or a ValueError of decode's failure
from_file(files, filepath) == decode(files[filepath])

\* lines 74 to 82 dropping the loaded image before the file is decoded
load_file_clearing(img, qimg, mode, decoded) ==
    IF decoded.ok
    THEN [image |-> decoded.image, qimage |-> draw_image(decoded.image),
          edit_mode |-> mode, result |-> "loaded", message |-> ""]
    ELSE [image |-> None, qimage |-> None,
          edit_mode |-> mode, result |-> "error box", message |-> decoded.error]

\* lines 74 to 82 leaving edit mode when a file is loaded
load_file_view_only(img, qimg, mode, decoded) ==
    IF decoded.ok
    THEN [image |-> decoded.image, qimage |-> draw_image(decoded.image),
          edit_mode |-> FALSE, result |-> "loaded", message |-> ""]
    ELSE [image |-> img, qimage |-> qimg,
          edit_mode |-> mode, result |-> "error box", message |-> decoded.error]

\* lines 74 to 82: the widget's image, bitmap and edit mode after the file's
\* bytes were decoded, and the text of the error box
load_file(img, qimg, mode, decoded) ==
    IF decoded.ok
    THEN [image |-> decoded.image, qimage |-> draw_image(decoded.image),
          edit_mode |-> mode, result |-> "loaded", message |-> ""]
    ELSE [image |-> img, qimage |-> qimg,
          edit_mode |-> mode, result |-> "error box", message |-> decoded.error]

\* MainWindow.open_file_action, with the dialog returning filepath
open_file_action(filepath) ==
    /\ open_enabled
    /\ IF filepath = NoPath
       THEN /\ last' = Outcome("open_file_action", TRUE, "cancelled", "")
            /\ UNCHANGED << image, qimage, edit_mode >>
       ELSE LET r == load_file(image, qimage, edit_mode, from_file(disk, filepath))
            IN  /\ image' = r.image
                /\ qimage' = r.qimage
                /\ edit_mode' = r.edit_mode
                /\ last' = Outcome("open_file_action", TRUE, r.result, r.message)
    /\ UNCHANGED << new_enabled, open_enabled, save_enabled, disk >>

\* line 105 without its test
save_without_test(img) == FALSE

\* line 105: save_file_action returns at once when there is no image
save_without_image(img) == img = None

\* Image.write_to_file: the files with the image's bytes at filepath
write_to_file(files, filepath, img) ==
    [p \in DOMAIN files \cup {filepath} |->
        IF p = filepath THEN encode(img) ELSE files[p]]

\* MainWindow.save_file_action, with the dialog (if it opens) returning
\* filepath
save_file_action(filepath) ==
    /\ save_enabled
    /\ IF save_without_image(image)
       THEN /\ last' = Outcome("save_file_action", FALSE, "no image", "")
            /\ UNCHANGED disk
       ELSE IF filepath = NoPath
       THEN /\ last' = Outcome("save_file_action", TRUE, "cancelled", "")
            /\ UNCHANGED disk
       ELSE IF image = None
       THEN /\ last' = Outcome("save_file_action", TRUE, "AttributeError", "")
            /\ UNCHANGED disk
       ELSE /\ last' = Outcome("save_file_action", TRUE, "written", "")
            /\ disk' = write_to_file(disk, filepath, image)
    /\ UNCHANGED << image, qimage, edit_mode, new_enabled, open_enabled,
                    save_enabled >>

\* ------------------------------------------------------ the specification

Next ==
    \/ file_menu_action_show
    \/ file_menu_action_hide
    \/ \E accepted \in BOOLEAN, size \in RequestedSizes, fmt \in ComboIndexes :
          new_file_action(accepted, size[1], size[2], fmt)
    \/ \E filepath \in DOMAIN disk \cup {NoPath} : open_file_action(filepath)
    \/ \E filepath \in SavePaths \cup {NoPath} : save_file_action(filepath)
    \/ \E pos \in PointerPositions : mouseMoveEvent(pos[1], pos[2])
    \/ \E pos \in PointerPositions : mousePressEvent(pos[1], pos[2])

Spec == Init /\ [][Next]_vars

\* ------------------------------------------------------------ the claims

\* a step that is a mouse press or a mouse move at pos
PointerEvent(pos) ==
    /\ last'.op = "_draw_pixel"
    /\ mouseMoveEvent(pos[1], pos[2]) \/ mousePressEvent(pos[1], pos[2])

\* the Editing state with an image loaded
Editing == image # None /\ edit_mode

\* the coordinate (col, row) the claims translate a position to, for an
\* image of height h no taller than the display
TranslatedCol(pos, h) == (pos[1] - 9) \div (300 \div h)

TranslatedRow(pos, h) == (pos[2] - 9) \div (300 \div h)

InsideImage(col, row, w, h) == 0 <= col /\ col < w /\ 0 <= row /\ row < h

\* C1: in Editing state, a pointer event whose translated coordinate lies
\* outside 0 <= col < w and 0 <= row < h (negative values included) leaves
\* the image's pixel grid unchanged.
C1_OutsideLeavesGrid ==
    [][\A pos \in PointerPositions :
          ( /\ Editing
            /\ image.height <= 300
            /\ PointerEvent(pos)
            /\ ~InsideImage(TranslatedCol(pos, image.height),
                            TranslatedRow(pos, image.height),
                            image.width, image.height) )
          => image'.pixels = image.pixels]_vars

\* C2: a pointer event received while no image is loaded, or while edit
\* mode is false, changes neither the image nor the displayed bitmap nor the
\* edit mode, and returns without an error.
C2_IgnoredEvent ==
    [][\A pos \in PointerPositions :
          ((image = None \/ ~edit_mode) /\ PointerEvent(pos))
          => /\ image' = image
             /\ qimage' = qimage
             /\ edit_mode' = edit_mode
             /\ last'.result = "ignored"]_vars

\* C2's case: a pointer event was ignored with an image loaded for viewing
C2_Witness ==
    /\ last.op = "_draw_pixel"
    /\ last.result = "ignored"
    /\ image # None
    /\ ~edit_mode

\* the failures of decode C3 names
DecodeFailures == {"MalformedHeader", "TruncatedData", "InvalidPixelValue"}

\* C3: an Open whose file fails to load with MalformedHeader, TruncatedData
\* or InvalidPixelValue shows the failure in an error box and leaves the
\* image (or its absence), the displayed bitmap and the edit mode as they
\* were.
C3_FailedOpen ==
    [][\A filepath \in DOMAIN disk :
          ( /\ ~decode(disk[filepath]).ok
            /\ decode(disk[filepath]).error \in DecodeFailures
            /\ last'.op = "open_file_action"
            /\ open_file_action(filepath) )
          => /\ image' = image
             /\ qimage' = qimage
             /\ edit_mode' = edit_mode
             /\ last'.result = "error box"
             /\ last'.message = decode(disk[filepath]).error]_vars

\* C3's case: an Open failed while an edited image was loaded
C3_Witness ==
    /\ last.op = "open_file_action"
    /\ last.result = "error box"
    /\ last.message \in DecodeFailures
    /\ image # None
    /\ edit_mode
    /\ \E row \in 1 .. image.height : \E col \in 1 .. image.width :
          image.pixels[row][col] = 1

\* C4: Save with no image loaded opens no dialog, writes no file and leaves
\* the image and the edit mode unchanged, and closing the File menu enables
\* Save whether or not an image is loaded.
C4_SaveWithoutImage ==
    [][ /\ \A filepath \in SavePaths \cup {NoPath} :
              (image = None /\ last'.op = "save_file_action"
                 /\ save_file_action(filepath))
              => /\ disk' = disk
                 /\ image' = image
                 /\ edit_mode' = edit_mode
                 /\ ~last'.dialog
        /\ (image = None /\ file_menu_action_hide) => save_enabled' ]_vars

\* C4's case: Save ran with no image loaded
C4_Witness ==
    /\ last.op = "save_file_action"
    /\ image = None
    /\ save_enabled

\* C5: a pointer event on a loaded image keeps the image's dimensions, never
\* turns a pixel that is 1 into anything else, and changes a pixel only to 1.
C5_OneDirectional ==
    [][\A pos \in PointerPositions :
          (image # None /\ PointerEvent(pos))
          => /\ image' # None
             /\ image'.width = image.width
             /\ image'.height = image.height
             /\ \A row \in 1 .. image.height : \A col \in 1 .. image.width :
                   /\ image.pixels[row][col] = 1 => image'.pixels[row][col] = 1
                   /\ image'.pixels[row][col] # image.pixels[row][col]
                         => image'.pixels[row][col] = 1]_vars

\* C5's case: a pointer event painted a pixel of an image that had a pixel
\* painted already
C5_Witness ==
    /\ last.result = "painted"
    /\ Cardinality({rc \in (1 .. image.height) \X (1 .. image.width) :
                       image.pixels[rc[1]][rc[2]] = 1}) >= 2

\* C6: in Editing state, for every pointer position, the event applied
\* twice leaves the same image (format, dimensions and pixel grid) as the
\* event applied once.
C6_PaintIdempotent ==
    Editing =>
        \A pos \in PointerPositions :
            LET once == draw_pixel(image, edit_mode, pos[1], pos[2])
            IN  draw_pixel(once.image, edit_mode, pos[1], pos[2]).image = once.image

\* C6's case: an image in Editing state that a pointer event changes
C6_Witness ==
    /\ Editing
    /\ last.result = "painted"
    /\ \E pos \in PointerPositions :
          draw_pixel(image, edit_mode, pos[1], pos[2]).image # image

\* C7: edit mode starts false, turns true only in a step that accepts a New
\* dialog, and once true stays true under every later event.
C7_EditModeOnlyRises ==
    /\ ~edit_mode
    /\ [][ /\ edit_mode => edit_mode'
           /\ (~edit_mode /\ edit_mode')
                 => (last'.op = "new_file_action" /\ last'.result = "accepted")
         ]_vars

\* C7's case: an image loaded by Open after an accepted New is editable
C7_Witness ==
    /\ last.op = "open_file_action"
    /\ last.result = "loaded"
    /\ edit_mode

\* C8: a New dialog is accepted only with a width and a height in
\* 1..65535, and the image it leaves has the chosen format and exactly
\* height rows of exactly width pixels, each 0.
C8_NewImage ==
    [][\A size \in RequestedSizes, fmt \in ComboIndexes :
          (last'.result = "accepted" /\ new_file_action(TRUE, size[1], size[2], fmt))
          => /\ size[1] \in 1 .. 65535
             /\ size[2] \in 1 .. 65535
             /\ fmt = Format_BW
             /\ image'.format = fmt
             /\ Len(image'.pixels) = size[2]
             /\ \A row \in 1 .. size[2] :
                   /\ Len(image'.pixels[row]) = size[1]
                   /\ \A col \in 1 .. size[1] : image'.pixels[row][col] = 0]_vars

\* C8's case: a New dialog was accepted with a width and a height that
\* differ
C8_Witness ==
    /\ last.op = "new_file_action"
    /\ last.result = "accepted"
    /\ image.width = 2
    /\ image.height = 1

\* C9: in Editing state with an image of height h (no taller than the
\* display), a pointer event at (x, y) whose row (y-9) div (300 div h) and
\* col (x-9) div (300 div h) are inside the image leaves the pixel at
\* (row, col) equal to 1.
C9_PaintsTranslatedPixel ==
    [][\A pos \in PointerPositions :
          ( /\ Editing
            /\ image.height <= 300
            /\ PointerEvent(pos)
            /\ InsideImage(TranslatedCol(pos, image.height),
                           TranslatedRow(pos, image.height),
                           image.width, image.height) )
          => /\ last'.result = "painted"
             /\ image'.pixels[TranslatedRow(pos, image.height) + 1]
                             [TranslatedCol(pos, image.height) + 1] = 1]_vars

\* C9's case: the event at (9, 9) painted the pixel at row 0, col 0
C9_Witness ==
    /\ last.result = "painted"
    /\ image.height = 2
    /\ image.pixels = << << 1, 0 >>, << 0, 0 >> >>

\* C10: a loaded image has a width and a height in 1..65535, exactly
\* height rows of exactly width pixels, and every pixel 0 or 1.
C10_ImageWellFormed ==
    image # None =>
        /\ image.width \in 1 .. 65535
        /\ image.height \in 1 .. 65535
        /\ Len(image.pixels) = image.height
        /\ \A row \in 1 .. Len(image.pixels) :
              /\ Len(image.pixels[row]) = image.width
              /\ \A col \in 1 .. Len(image.pixels[row]) :
                    image.pixels[row][col] \in {0, 1}

\* C10's case: an image that was created, painted, saved and loaded again
C10_Witness ==
    /\ last.op = "open_file_action"
    /\ last.result = "loaded"
    /\ image.height = 2
    /\ \E row \in 1 .. image.height : \E col \in 1 .. image.width :
          image.pixels[row][col] = 1

\* some pixel of the loaded image is 1
SomePixelPainted ==
    \E row \in 1 .. image.height : \E col \in 1 .. image.width :
        image.pixels[row][col] = 1

\* C11: saving a loaded image and then opening the saved file loads an image
\* of the same width, height, format and pixel grid.
C11_RoundTrip ==
    image # None =>
        \A filepath \in SavePaths :
            LET saved  == write_to_file(disk, filepath, image)
                opened == load_file(None, None, edit_mode, from_file(saved, filepath))
            IN  /\ opened.result = "loaded"
                /\ opened.image.width = image.width
                /\ opened.image.height = image.height
                /\ opened.image.format = image.format
                /\ opened.image.pixels = image.pixels

\* C11's case: a painted 2x2 image was saved and the saved file opened
C11_Witness ==
    /\ last.op = "open_file_action"
    /\ last.result = "loaded"
    /\ edit_mode
    /\ "out.limg" \in DOMAIN disk
    /\ disk["out.limg"] = encode(image)
    /\ image.width = 2
    /\ image.height = 2
    /\ SomePixelPainted

\* C12: a pointer event whose translated (row, col) is inside the image
\* leaves every other pixel, the width, the height, the format and the edit
\* mode as they were.
C12_PaintFrame ==
    [][\A pos \in PointerPositions :
          ( /\ Editing
            /\ image.height <= 300
            /\ PointerEvent(pos)
            /\ InsideImage(TranslatedCol(pos, image.height),
                           TranslatedRow(pos, image.height),
                           image.width, image.height) )
          => /\ image'.width = image.width
             /\ image'.height = image.height
             /\ image'.format = image.format
             /\ edit_mode' = edit_mode
             /\ \A row \in 1 .. image.height : \A col \in 1 .. image.width :
                   (row # TranslatedRow(pos, image.height) + 1
                       \/ col # TranslatedCol(pos, image.height) + 1)
                   => image'.pixels[row][col] = image.pixels[row][col]]_vars

\* C12's case: a pixel of a 2x1 image was painted and its neighbour was not
C12_Witness ==
    /\ last.result = "painted"
    /\ image.height = 1
    /\ image.pixels = << << 1, 0 >> >>

C14_NoPointerError ==
    last.op = "_draw_pixel" => last.result \in {"ignored", "outside", "painted"}

\* C15: while no New dialog has been accepted (edit mode is still false
\* after the step), a loaded image changes only in a step that is a
\* successful Open, to the image decoded from a file.
C15_ViewedImageKept ==
    [][(~edit_mode /\ ~edit_mode' /\ image # None)
          => \/ image' = image
             \/ /\ last'.op = "open_file_action"
                /\ last'.result = "loaded"
                /\ \E filepath \in DOMAIN disk :
                      /\ decode(disk[filepath]).ok
                      /\ image' = decode(disk[filepath]).image]_vars

\* C15's case: with no New accepted, an opened image was saved and then a
\* pointer event was received
C15_Witness ==
    /\ ~edit_mode
    /\ image # None
    /\ "out.limg" \in DOMAIN disk
    /\ last.op = "_draw_pixel"

\* C16: edit mode is true only if an image is loaded.
C16_EditingHasImage == edit_mode => image # None

\* C16's case: edit mode is true and the loaded image was saved
C16_Witness ==
    /\ edit_mode
    /\ image # None
    /\ last.op = "save_file_action"
    /\ last.result = "written"

\* C17: a rejected New dialog, an Open dialog closed without a path and a
\* Save dialog closed without a path each leave the image, the displayed
\* bitmap, the edit mode and the files as they were.
C17_CancelledDialog ==
    [][( \/ /\ last'.op = "new_file_action"
            /\ \E size \in RequestedSizes, fmt \in ComboIndexes :
                  new_file_action(FALSE, size[1], size[2], fmt)
         \/ /\ last'.op = "open_file_action"
            /\ open_file_action(NoPath)
         \/ /\ last'.op = "save_file_action"
            /\ image # None
            /\ save_file_action(NoPath) )
          => /\ image' = image
             /\ qimage' = qimage
             /\ edit_mode' = edit_mode
             /\ disk' = disk]_vars

\* C17's case: a New dialog was rejected over a painted image
C17_Witness ==
    /\ last.op = "new_file_action"
    /\ last.result = "rejected"
    /\ Editing
    /\ SomePixelPainted

====
